---- MODULE Spec2Model ----
(***************************************************************************)
(* chartmuseum2oci: migration of Helm charts from a ChartMuseum-backed     *)
(* Harbor registry to an OCI registry (src/chartmuseum2oci/main.go).       *)
(*                                                                         *)
(* The program is one sequential process.  Every external call (helm       *)
(* login, chart discovery, the HTTP GET, helm push) is split into the      *)
(* step that issues it and the step in which it returns, so that "a call   *)
(* is in flight" is a state of the model.  The variable trace is a history *)
(* of the external effects of the run; it is not read by any guard.        *)
(***************************************************************************)
EXTENDS Integers, Sequences, FiniteSets, TLC

\* Longest list the discovery returns in the model.
MaxCharts == 2

\* http.StatusOK
StatusOK == 200

\* Command lines: values of --source-url, --destination-url and --destpath.
\* "%zz" is a URL that url.Parse (inside http.NewRequest) rejects.
SourceURLs == {"", "https://old.example", "%zz"}
DestinationURLs == {"", "new.example"}
DestPaths == {"", "/oci"}

\* Values of --source-username/--source-password and of
\* --destination-username/--destination-password: <<username, password>>.
SourceCredentials == { <<"", "">>, <<"admin", "secret">> }
DestinationCredentials == { <<"admin", "secret">> }

\* HTTP statuses the source answers with.
StatusCodes == {StatusOK, 404}

\* Charts the source may hold: two of them differ in the project only.
HelmCharts ==
  { [Name |-> "redis", Project |-> "db",  Version |-> "1.0.0"],
    [Name |-> "redis", Project |-> "web", Version |-> "1.0.0"],
    [Name |-> "nginx", Project |-> "web", Version |-> "2.3.1"] }

NoChart == [Name |-> "", Project |-> "", Version |-> ""]

ChartFileNameWithProject(hc) ==
  hc.Project \o "-" \o hc.Name \o "-" \o hc.Version \o ".tgz"

\* func (hc HelmChart) ChartFileName() string
ChartFileName(hc) == hc.Name \o "-" \o hc.Version \o ".tgz"

FileNames == { ChartFileName(hc) : hc \in HelmCharts }

\* A file of the working directory: absent, or holding (all or a part of)
\* the bytes the source served for the chart `of`.
AbsentFile == [present |-> FALSE, of |-> NoChart, whole |-> FALSE]
StagedFile(body, whole) == [present |-> TRUE, of |-> body, whole |-> whole]

(***************************************************************************)
(* Errors.  A Go error is modelled by what its message text contains: the  *)
(* prefixes added by errors.Wrap (outermost first), its innermost cause,   *)
(* the HTTP status it prints (0: none) and the artifact file names that    *)
(* occur in the text.                                                      *)
(***************************************************************************)
Nil == [wraps |-> <<>>, cause |-> "nil", status |-> 0, names |-> {}]
NewError(cause, status, names) ==
  [wraps |-> <<>>, cause |-> cause, status |-> status, names |-> names]
Wrap(e, msg) == [e EXCEPT !.wraps = <<msg>> \o @]

VARIABLES
  sourceHarborURL,        \* --source-url
  sourceHarborUsername,   \* --source-username
  sourceHarborPassword,   \* --source-password
  destinationHarborURL,   \* --destination-url
  destinationHarborUsername,   \* --destination-username
  destinationHarborPassword,   \* --destination-password
  destPath,               \* --destpath
  pc,                     \* position of the process
  helmChartsToMigrate,    \* the discovered list
  idx,                    \* position of the range loop (0: before it)
  errorCount,
  err,                    \* result of the transfer in progress
  resBody,                \* bytes read from the response
  files,                  \* the working directory, by file name
  log,                    \* lines written by the log package
  exitCode,               \* process exit status, once pc = "exited"
  trace                   \* history of external calls and their results

vars == <<sourceHarborURL, sourceHarborUsername, sourceHarborPassword,
          destinationHarborURL, destinationHarborUsername,
          destinationHarborPassword, destPath, pc,
          helmChartsToMigrate, idx, errorCount, err, resBody, files, log,
          exitCode, trace>>

config == <<sourceHarborURL, sourceHarborUsername, sourceHarborPassword,
            destinationHarborURL, destinationHarborUsername,
            destinationHarborPassword, destPath>>

helmChart == helmChartsToMigrate[idx]

Event(op, i) ==
  [op |-> op, i |-> i, file |-> "", target |-> "", user |-> "", result |-> "",
   status |-> 0, content |-> AbsentFile]

LogLine(line, n, e) == [line |-> line, n |-> n, e |-> e]

Init ==
  /\ sourceHarborURL \in SourceURLs
  /\ destinationHarborURL \in DestinationURLs
  /\ \E c \in SourceCredentials :
       sourceHarborUsername = c[1] /\ sourceHarborPassword = c[2]
  /\ \E c \in DestinationCredentials :
       destinationHarborUsername = c[1] /\ destinationHarborPassword = c[2]
  /\ destPath \in DestPaths
  /\ pc = "initFlags"
  /\ helmChartsToMigrate = <<>>
  /\ idx = 0
  /\ errorCount = 0
  /\ err = Nil
  /\ resBody = NoChart
  /\ files = [f \in FileNames |-> AbsentFile]
  /\ log = <<>>
  /\ exitCode = 0
  /\ trace = <<>>

\* log.Fatal: print the error, then os.Exit(1).
Fatal(e) ==
  /\ log' = Append(log, LogLine("fatal", 0, e))
  /\ exitCode' = 1
  /\ pc' = "exited"

MissingRequiredFlagAnd(s, d) == s = "" /\ d = ""

\* sourceHarborURL == "" || destinationHarborURL == ""
MissingRequiredFlag(s, d) == s = "" \/ d = ""

\* init() -> initFlags()
InitFlags ==
  /\ pc = "initFlags"
  /\ IF MissingRequiredFlag(sourceHarborURL, destinationHarborURL)
       THEN Fatal(NewError("Missing required --source-url or --destination-url flag", 0, {}))
       ELSE pc' = "loginSource" /\ UNCHANGED <<log, exitCode>>
  /\ UNCHANGED <<config, helmChartsToMigrate, idx, errorCount, err, resBody,
                 files, trace>>

Sides == {"Source", "Destination"}
Registry(side) ==
  IF side = "Source" THEN sourceHarborURL ELSE destinationHarborURL
Username(side) ==
  IF side = "Source" THEN sourceHarborUsername ELSE destinationHarborUsername

\* helmLogin: cmd.Run() is issued
HelmLoginStart(side) ==
  /\ pc = "login" \o side
  /\ pc' = "helmLogin" \o side
  /\ trace' = Append(trace, [Event("login", 0) EXCEPT
                               !.target = Registry(side),
                               !.user = Username(side)])
  /\ UNCHANGED <<config, helmChartsToMigrate, idx, errorCount, err, resBody,
                 files, log, exitCode>>

MainAfterLoginIgnored(side, e) ==
  /\ pc' = IF side = "Source" THEN "loginDestination" ELSE "discover"
  /\ UNCHANGED <<log, exitCode>>

MainAfterLoginRetry(side, e) ==
  IF e # Nil
    THEN IF \E k \in DOMAIN trace : trace[k].result = "fail"
           THEN Fatal(Wrap(e, "Failed to login to " \o side \o " Harbor"))
           ELSE pc' = "login" \o side /\ UNCHANGED <<log, exitCode>>
    ELSE /\ pc' = IF side = "Source" THEN "loginDestination" ELSE "discover"
         /\ UNCHANGED <<log, exitCode>>

\* main: if err := helmLogin(...); err != nil { log.Fatal(...) }
MainAfterLogin(side, e) ==
  IF e # Nil
    THEN Fatal(Wrap(e, "Failed to login to " \o side \o " Harbor"))
    ELSE /\ pc' = IF side = "Source" THEN "loginDestination" ELSE "discover"
         /\ UNCHANGED <<log, exitCode>>

\* helmLogin: cmd.Run() returns
HelmLoginFinish(side) ==
  /\ pc = "helmLogin" \o side
  /\ \E ok \in BOOLEAN :
       /\ trace' = Append(trace, [Event("loginDone", 0) EXCEPT
                                    !.target = Registry(side),
                                    !.result = IF ok THEN "ok" ELSE "fail"])
       /\ MainAfterLogin(side,
            IF ok THEN Nil
            ELSE Wrap(NewError("exit status", 0, {}), "Failed to execute helm login"))
  /\ UNCHANGED <<config, helmChartsToMigrate, idx, errorCount, err, resBody,
                 files>>

\* What the discovery of the charts returns: an error, or an ordered list.
DiscoveryLists == UNION { [1..n -> HelmCharts] : n \in 0..MaxCharts }
DiscoveryResults ==
  { [ok |-> FALSE, charts |-> <<>>] } \cup
  { [ok |-> TRUE, charts |-> l] : l \in DiscoveryLists }

\* getHarborChartmuseumCharts() is called
DiscoverStart ==
  /\ pc = "discover"
  /\ pc' = "getCharts"
  /\ trace' = Append(trace, [Event("discover", 0) EXCEPT !.target = sourceHarborURL])
  /\ UNCHANGED <<config, helmChartsToMigrate, idx, errorCount, err, resBody,
                 files, log, exitCode>>

MainAfterDiscoveryNoneIsError(r) ==
  IF ~r.ok \/ r.charts = <<>>
    THEN /\ Fatal(Wrap(NewError("discovery", 0, {}),
                       "Failed to retrieve Helm charts from source"))
         /\ UNCHANGED <<helmChartsToMigrate, errorCount>>
    ELSE /\ helmChartsToMigrate' = r.charts
         /\ log' = Append(log, LogLine("total", Len(r.charts), Nil))
         /\ errorCount' = 0
         /\ pc' = "loop"
         /\ UNCHANGED exitCode

\* main: helmChartsToMigrate, err := getHarborChartmuseumCharts(); fatal on
\* an error, else print the total and set errorCount := 0
MainAfterDiscovery(r) ==
  IF ~r.ok
    THEN /\ Fatal(Wrap(NewError("discovery", 0, {}),
                       "Failed to retrieve Helm charts from source"))
         /\ UNCHANGED <<helmChartsToMigrate, errorCount>>
    ELSE /\ helmChartsToMigrate' = r.charts
         /\ log' = Append(log, LogLine("total", Len(r.charts), Nil))
         /\ errorCount' = 0
         /\ pc' = "loop"
         /\ UNCHANGED exitCode

\* getHarborChartmuseumCharts() returns
DiscoverFinish ==
  /\ pc = "getCharts"
  /\ \E r \in DiscoveryResults :
       /\ trace' = Append(trace, [Event("discoverDone", 0) EXCEPT
                                    !.result = IF r.ok THEN "ok" ELSE "fail",
                                    !.status = Len(r.charts)])
       /\ MainAfterDiscovery(r)
  /\ UNCHANGED <<config, idx, err, resBody, files>>

LoopNextAsync ==
  /\ pc \in {"loop", "clientDo", "helmPush"}
  /\ idx < Len(helmChartsToMigrate)
  /\ idx' = idx + 1
  /\ pc' = "pull"
  /\ UNCHANGED <<config, helmChartsToMigrate, errorCount, err, resBody, files,
                 log, exitCode, trace>>

\* main: the range loop takes the next chart (and advances the progress bar)
LoopNext ==
  /\ pc = "loop"
  /\ idx < Len(helmChartsToMigrate)
  /\ idx' = idx + 1
  /\ pc' = "pull"
  /\ UNCHANGED <<config, helmChartsToMigrate, errorCount, err, resBody, files,
                 log, exitCode, trace>>

\* http.NewRequest parses the URL built from sourceHarborURL
ValidURL(u) == u # "%zz"

PullReturnsIgnored(e) ==
  /\ err' = err
  /\ pc' = "push"

\* migrateChartFromSourceToDestination: the result of pullChartFromSource
PullReturns(e) ==
  IF e # Nil
    THEN /\ err' = Wrap(e, "Failed to pull chart from source")
         /\ pc' = "migrateReturn"
    ELSE /\ err' = err
         /\ pc' = "push"

\* pullChartFromSource: build the request and issue client.Do(req)
PullStart ==
  /\ pc = "pull"
  /\ LET name == ChartFileName(helmChart)
         sent == ValidURL(sourceHarborURL)
     IN /\ trace' = Append(trace, [Event("pull", idx) EXCEPT
                                     !.file = name,
                                     !.target = helmChart.Project,
                                     !.user = sourceHarborUsername,
                                     !.result = IF sent THEN "sent" ELSE "unsent"])
        /\ IF sent
             THEN pc' = "clientDo" /\ err' = err
             ELSE PullReturns(NewError("parse", 0, {name}))
  /\ UNCHANGED <<config, helmChartsToMigrate, idx, errorCount, resBody, files,
                 log, exitCode>>

\* What client.Do and io.ReadAll produce: a transport error (the timeout
\* included), or a response with a status whose body can be read or not.
FetchOutcomes ==
  { [result |-> "transport", status |-> 0] } \cup
  { [result |-> r, status |-> s] : r \in {"read", "ok"}, s \in StatusCodes }

IsStatusOKAlways(s) == TRUE

\* res.StatusCode != http.StatusOK
IsStatusOK(s) == s = StatusOK

\* pullChartFromSource: client.Do returns; status check; io.ReadAll
PullResponse ==
  /\ pc = "clientDo"
  /\ \E o \in FetchOutcomes :
       LET name == ChartFileName(helmChart)
           e == IF o.result = "transport"
                  THEN NewError("transport", 0, {name})
                ELSE IF ~IsStatusOK(o.status)
                  THEN NewError("received status", o.status, {})
                ELSE IF o.result = "read"
                  THEN NewError("read", 0, {})
                ELSE Nil
       IN /\ trace' = Append(trace, [Event("pullDone", idx) EXCEPT
                                       !.file = name,
                                       !.result = e.cause,
                                       !.status = o.status])
          /\ IF e # Nil
               THEN PullReturns(e) /\ resBody' = resBody
               ELSE /\ resBody' = helmChart
                    /\ pc' = "writeFile"
                    /\ err' = err
  /\ UNCHANGED <<config, helmChartsToMigrate, idx, errorCount, files, log,
                 exitCode>>

\* os.WriteFile(chartFileName, resBody, fileMode): it succeeds, or fails
\* before the file is touched, or fails after the file was truncated.
WriteOutcomes == {"ok", "unopened", "partial"}

WriteChartFileKeep ==
  /\ pc = "writeFile"
  /\ \E o \in WriteOutcomes :
       LET name == ChartFileName(helmChart) IN
       /\ files' = IF o = "unopened" \/ files[name].present THEN files
                   ELSE [files EXCEPT ![name] = StagedFile(resBody, o = "ok")]
       /\ trace' = Append(trace, [Event("write", idx) EXCEPT
                                    !.file = name,
                                    !.result = o,
                                    !.content = StagedFile(resBody, o = "ok")])
       /\ PullReturns(IF o = "ok" THEN Nil ELSE NewError("write", 0, {name}))
  /\ UNCHANGED <<config, helmChartsToMigrate, idx, errorCount, resBody, log,
                 exitCode>>

\* pullChartFromSource: return os.WriteFile(...)
WriteChartFile ==
  /\ pc = "writeFile"
  /\ \E o \in WriteOutcomes :
       LET name == ChartFileName(helmChart) IN
       /\ files' = IF o = "unopened" THEN files
                   ELSE [files EXCEPT ![name] = StagedFile(resBody, o = "ok")]
       /\ trace' = Append(trace, [Event("write", idx) EXCEPT
                                    !.file = name,
                                    !.result = o,
                                    !.content = StagedFile(resBody, o = "ok")])
       /\ PullReturns(IF o = "ok" THEN Nil ELSE NewError("write", 0, {name}))
  /\ UNCHANGED <<config, helmChartsToMigrate, idx, errorCount, resBody, log,
                 exitCode>>

\* repoURL := fmt.Sprintf("oci://%s/%s%s", ...)
RepoURL(hc) == "oci://" \o destinationHarborURL \o "/" \o hc.Project \o destPath

\* pushChartToDestination: helm push <file> <repoURL> is issued
PushStart ==
  /\ pc = "push"
  /\ pc' = "helmPush"
  /\ trace' = Append(trace, [Event("push", idx) EXCEPT
                               !.file = ChartFileName(helmChart),
                               !.target = RepoURL(helmChart),
                               !.content = files[ChartFileName(helmChart)]])
  /\ UNCHANGED <<config, helmChartsToMigrate, idx, errorCount, err, resBody,
                 files, log, exitCode>>

\* helm push succeeds, or fails with a stderr text that names the file or
\* does not.
PushOutcomes == {"ok", "failNamed", "failUnnamed"}

PushReturnsRetry(e) ==
  IF e # Nil
    THEN IF \E k \in DOMAIN trace : trace[k].op = "pushDone" /\ trace[k].i = idx
           THEN /\ err' = Wrap(e, "Failed to push chart to destination")
                /\ pc' = "migrateReturn"
           ELSE /\ err' = err
                /\ pc' = "push"
    ELSE /\ err' = err
         /\ pc' = "remove"

\* migrateChartFromSourceToDestination: the result of pushChartToDestination
PushReturns(e) ==
  IF e # Nil
    THEN /\ err' = Wrap(e, "Failed to push chart to destination")
         /\ pc' = "migrateReturn"
    ELSE /\ err' = err
         /\ pc' = "remove"

\* pushChartToDestination: cmd.Run() returns
PushFinish ==
  /\ pc = "helmPush"
  /\ \E o \in PushOutcomes :
       LET name == ChartFileName(helmChart) IN
       /\ trace' = Append(trace, [Event("pushDone", idx) EXCEPT
                                    !.file = name, !.result = o])
       /\ PushReturns(
            IF o = "ok" THEN Nil
            ELSE Wrap(NewError("exit status", 0,
                               IF o = "failNamed" THEN {name} ELSE {}),
                      "Failed to execute helm push"))
  /\ UNCHANGED <<config, helmChartsToMigrate, idx, errorCount, resBody, files,
                 log, exitCode>>

RemoveChartFileAll ==
  /\ pc = "remove"
  /\ \E ok \in BOOLEAN :
       LET name == ChartFileName(helmChart)
           removed == ok /\ files[name].present
       IN /\ files' = IF removed THEN [f \in FileNames |-> AbsentFile]
                      ELSE files
          /\ trace' = Append(trace, [Event("remove", idx) EXCEPT
                                       !.file = name,
                                       !.result = IF removed THEN "ok" ELSE "fail"])
          /\ err' = IF removed THEN Nil ELSE NewError("remove", 0, {name})
  /\ pc' = "migrateReturn"
  /\ UNCHANGED <<config, helmChartsToMigrate, idx, errorCount, resBody, log,
                 exitCode>>

\* removeChartFile: os.Remove(helmChart.ChartFileName()), whose error is what
\* migrateChartFromSourceToDestination returns
RemoveChartFile ==
  /\ pc = "remove"
  /\ \E ok \in BOOLEAN :
       LET name == ChartFileName(helmChart)
           removed == ok /\ files[name].present
       IN /\ files' = IF removed THEN [files EXCEPT ![name] = AbsentFile]
                      ELSE files
          /\ trace' = Append(trace, [Event("remove", idx) EXCEPT
                                       !.file = name,
                                       !.result = IF removed THEN "ok" ELSE "fail"])
          /\ err' = IF removed THEN Nil ELSE NewError("remove", 0, {name})
  /\ pc' = "migrateReturn"
  /\ UNCHANGED <<config, helmChartsToMigrate, idx, errorCount, resBody, log,
                 exitCode>>

MainAfterMigrateFatal(e) ==
  IF e # Nil
    THEN /\ errorCount' = errorCount + 1
         /\ Fatal(Wrap(e, "Failed to migrate Helm chart"))
    ELSE /\ pc' = "loop"
         /\ UNCHANGED <<errorCount, log, exitCode>>

MainAfterMigrateDouble(e) ==
  /\ IF e # Nil
       THEN /\ errorCount' = errorCount + 2
            /\ log' = Append(log, LogLine("chart", 0,
                                          Wrap(e, "Failed to migrate Helm chart")))
       ELSE UNCHANGED <<errorCount, log>>
  /\ pc' = "loop"
  /\ UNCHANGED exitCode

\* main: if err := migrateChart...(helmChart); err != nil { errorCount++;
\* log.Println(...) }
MainAfterMigrate(e) ==
  /\ IF e # Nil
       THEN /\ errorCount' = errorCount + 1
            /\ log' = Append(log, LogLine("chart", 0,
                                          Wrap(e, "Failed to migrate Helm chart")))
       ELSE UNCHANGED <<errorCount, log>>
  /\ pc' = "loop"
  /\ UNCHANGED exitCode

\* migrateChartFromSourceToDestination returns to the loop of main
MigrateReturn ==
  /\ pc = "migrateReturn"
  /\ trace' = Append(trace, [Event("return", idx) EXCEPT
                               !.file = ChartFileName(helmChart),
                               !.result = err.cause])
  /\ MainAfterMigrate(err)
  /\ err' = Nil
  /\ UNCHANGED <<config, helmChartsToMigrate, idx, resBody, files>>

MigratedCountAll(total, errors) == total

\* len(helmChartsToMigrate)-errorCount
MigratedCount(total, errors) == total - errors

\* main: the loop is over; print the summary and return (exit status 0)
Summary ==
  /\ pc = "loop"
  /\ idx = Len(helmChartsToMigrate)
  /\ log' = Append(log, LogLine("summary",
                                MigratedCount(Len(helmChartsToMigrate), errorCount),
                                Nil))
  /\ exitCode' = 0
  /\ pc' = "exited"
  /\ UNCHANGED <<config, helmChartsToMigrate, idx, errorCount, err, resBody,
                 files, trace>>

Next ==
  \/ InitFlags
  \/ \E side \in Sides : HelmLoginStart(side)
  \/ \E side \in Sides : HelmLoginFinish(side)
  \/ DiscoverStart
  \/ DiscoverFinish
  \/ LoopNext
  \/ PullStart
  \/ PullResponse
  \/ WriteChartFile
  \/ PushStart
  \/ PushFinish
  \/ RemoveChartFile
  \/ MigrateReturn
  \/ Summary

Spec == Init /\ [][Next]_vars

\* The steps the process makes by itself: every action but the return of an
\* external call.
ProgramStep ==
  \/ InitFlags
  \/ \E side \in Sides : HelmLoginStart(side)
  \/ DiscoverStart
  \/ LoopNext
  \/ PullStart
  \/ WriteChartFile
  \/ PushStart
  \/ RemoveChartFile
  \/ MigrateReturn
  \/ Summary

\* The process keeps running, the GET returns (http.Client{Timeout: timeout})
\* and so does the discovery; nothing makes helm login or helm push return:
\* both are run by cmd.Run() without a deadline.
TimeoutSpec ==
  Spec /\ WF_vars(ProgramStep) /\ WF_vars(PullResponse) /\ WF_vars(DiscoverFinish)

\* The external commands and requests answer and the process keeps running.
FairSpec == Spec /\ WF_vars(Next)

(***************************************************************************)
(* Properties.  They read the history of the run kept in trace.            *)
(***************************************************************************)
Ev(op) == { k \in DOMAIN trace : trace[k].op = op }
EvOf(op, i) == { k \in DOMAIN trace : trace[k].op = op /\ trace[k].i = i }
Lines(line) == { k \in DOMAIN log : log[k].line = line }

C2_PushOnlyAfterPersist ==
  /\ \A k \in Ev("push") :
       \E a \in EvOf("pullDone", trace[k].i), b \in EvOf("write", trace[k].i) :
         /\ a < b /\ b < k
         /\ trace[a].status = StatusOK /\ trace[a].result = "nil"
         /\ trace[b].result = "ok" /\ trace[b].file = trace[k].file
  /\ \A k \in Ev("pull") \cup Ev("pullDone") \cup Ev("write") :
       trace[k].result \in {"unsent", "transport", "received status", "read",
                            "unopened", "partial"}
         => EvOf("push", trace[k].i) = {}

C2_Witness ==
  \E k \in Ev("push") : trace[k].content.present /\ trace[k].content.whole

\* C3: when the run has printed its summary, the number of charts it reports
\* as migrated plus the failure count is the length of the discovered list.
C3_CountsAddUp ==
  \A k \in Lines("summary") :
    log[k].n + errorCount = Len(helmChartsToMigrate)

C3_Witness ==
  \E k \in Lines("summary") : log[k].n >= 1 /\ errorCount >= 1

\* C4: every transfer that issued helm push and has returned attempted the
\* removal of its staged file exactly once, after the push returned, and
\* after a failed push no staged file of the transfer is left.
C4_CleanupAfterEveryPush ==
  \A k \in Ev("return") :
    \A p \in EvOf("pushDone", trace[k].i) :
      /\ Cardinality(EvOf("remove", trace[k].i)) = 1
      /\ \A r \in EvOf("remove", trace[k].i) : p < r /\ r < k
      /\ (trace[p].result # "ok" /\ k = Len(trace))
           => ~files[trace[k].file].present

\* C5: a transfer whose fetch, write and push succeeded returns success (and
\* is not counted as a failure), also when the removal of its file failed.
C5_CleanupFailureNotCounted ==
  \A k \in Ev("return") :
    (\E p \in EvOf("pushDone", trace[k].i) : trace[p].result = "ok")
      => /\ trace[k].result = "nil"
         /\ errorCount = Cardinality({ j \in Ev("return") :
                           EvOf("pushDone", trace[j].i) = {} \/
                           \E p \in EvOf("pushDone", trace[j].i) :
                              trace[p].result # "ok" })

\* C6: after a failed login or a failed discovery the process has exited
\* with status 1 and nothing follows the failure: no discovery after a
\* failed login, no fetch, write or push, no file staged, and no per-chart
\* line, total or summary in the log.
C6_FatalStopsEverything ==
  \A k \in Ev("loginDone") \cup Ev("discoverDone") :
    trace[k].result = "fail" =>
      /\ k = Len(trace)
      /\ pc = "exited" /\ exitCode = 1
      /\ Ev("pull") \cup Ev("write") \cup Ev("push") = {}
      /\ trace[k].op = "loginDone" => Ev("discover") = {}
      /\ \A f \in FileNames : ~files[f].present
      /\ Lines("chart") \cup Lines("total") \cup Lines("summary") = {}

C6_Witness ==
  /\ pc = "exited"
  /\ \E k \in Ev("loginDone") :
       /\ trace[k].result = "fail"
       /\ trace[k].target = destinationHarborURL
       /\ \E j \in Ev("loginDone") : j < k /\ trace[j].result = "ok"

\* C7: when the run has gone through the whole list, its exit status is 0
\* exactly when no chart failed.
C7_ExitStatusReflectsFailures ==
  (pc = "exited" /\ Lines("summary") # {}) =>
    (exitCode = 0 <=> errorCount = 0)

DiscoveredNone ==
  \E k \in Ev("discoverDone") : trace[k].result = "ok" /\ trace[k].status = 0

\* C8: when the discovery returns the empty list, no fetch, write, push or
\* removal is made, and the run exits with status 0 after it printed a total
\* of 0 and a summary of 0 migrated charts, and no failure.
C8_EmptyListSucceeds ==
  DiscoveredNone =>
    /\ Ev("pull") \cup Ev("write") \cup Ev("push") \cup Ev("remove") = {}
    /\ pc \in {"loop", "exited"}
    /\ errorCount = 0
    /\ pc = "exited" =>
         /\ exitCode = 0
         /\ log = << LogLine("total", 0, Nil), LogLine("summary", 0, Nil) >>

C8_Witness == DiscoveredNone /\ pc = "exited"

FailedReturns == SelectSeq(trace, LAMBDA ev : ev.op = "return" /\ ev.result # "nil")
ChartLines == SelectSeq(log, LAMBDA l : l.line = "chart")

\* C9: the per-chart lines of the log are, in the order of the list, one per
\* failed transfer; each carries a cause and names the artifact file of the
\* chart that failed, and the line of a fetch answered with a status other
\* than OK carries that status too.
C9_OneDiagnosticPerFailure ==
  /\ Len(ChartLines) = Len(FailedReturns)
  /\ \A k \in 1..Len(FailedReturns) :
       k <= Len(ChartLines) =>
         /\ k > 1 => FailedReturns[k-1].i < FailedReturns[k].i
         /\ ChartLines[k].e.cause = FailedReturns[k].result
         /\ FailedReturns[k].file \in ChartLines[k].e.names
         /\ ChartLines[k].e.cause = "received status" =>
              \E p \in EvOf("pullDone", FailedReturns[k].i) :
                ChartLines[k].e.status = trace[p].status

\* C10: with an empty --source-url or --destination-url the process exits
\* with status 1 in initFlags, and no login, discovery, fetch or push is
\* ever made.
C10_MissingURLIsFatal ==
  (sourceHarborURL = "" \/ destinationHarborURL = "") =>
    /\ trace = <<>>
    /\ pc \in {"initFlags", "exited"}
    /\ pc = "exited" => exitCode = 1 /\ Lines("fatal") # {}

C10_Witness ==
  pc = "exited" /\ sourceHarborURL # "" /\ destinationHarborURL = ""

LoggedIn(side, k) ==
  \E j \in Ev("loginDone") :
    j < k /\ trace[j].target = Registry(side) /\ trace[j].result = "ok"

\* C11: helm login is run at most once per registry, the source first, and
\* never again after a login failed; the discovery starts only after both
\* logins succeeded, a fetch only after that and after the discovery
\* returned a list, and the summary only after the transfer of every chart
\* of the list has returned.
C11_LoginOncePerSideInOrder ==
  /\ \A side \in Sides :
       Cardinality({ k \in Ev("login") : trace[k].target = Registry(side) }) <= 1
  /\ \A k \in Ev("login"), j \in Ev("loginDone") : j < k => trace[j].result = "ok"
  /\ \A k \in Ev("login") :
       trace[k].target = Registry("Destination") => LoggedIn("Source", k)
  /\ \A k \in Ev("discover") \cup Ev("pull") \cup Ev("push") :
       \A side \in Sides : LoggedIn(side, k)
  /\ \A k \in Ev("pull") :
       \E j \in Ev("discoverDone") : j < k /\ trace[j].result = "ok"
  /\ Lines("summary") # {} =>
       /\ \E j \in Ev("discoverDone") : trace[j].result = "ok"
       /\ \A i \in 1..Len(helmChartsToMigrate) : EvOf("return", i) # {}

C11_Witness ==
  /\ Lines("summary") # {}
  /\ Ev("pull") # {}
  /\ Cardinality(Ev("loginDone")) = 2

TransferOps == {"pullDone", "write", "push", "pushDone", "remove"}

\* C12: the transfers run one at a time in the order of the list: at most
\* one transfer has started and not returned, the fetch of position i+1
\* starts only after the transfer of position i has returned, and every
\* step of a transfer (its removal of the file included) lies between its
\* start and its return.
C12_TransfersSequential ==
  /\ Cardinality(Ev("pull")) - Cardinality(Ev("return")) \in {0, 1}
  /\ \A k \in Ev("pull"), j \in Ev("pull") : k < j => trace[k].i < trace[j].i
  /\ \A k \in Ev("pull") :
       trace[k].i > 1 => \E r \in EvOf("return", trace[k].i - 1) : r < k
  /\ \A k \in DOMAIN trace :
       trace[k].op \in TransferOps =>
         /\ \E p \in EvOf("pull", trace[k].i) : p < k
         /\ \A r \in EvOf("return", trace[k].i) : k < r
         /\ \A p \in Ev("pull") : trace[p].i > trace[k].i => k < p

C12_Witness ==
  /\ EvOf("remove", 1) # {}
  /\ EvOf("pull", 2) # {}

StepOps == {"pull", "pullDone", "write", "push", "pushDone", "remove", "return"}

\* The first error among the steps the transfer of position i has made.
FirstError(i) ==
  IF \E k \in EvOf("pull", i) : trace[k].result = "unsent" THEN "parse"
  ELSE IF \E k \in EvOf("pullDone", i) : trace[k].result # "nil"
    THEN trace[CHOOSE k \in EvOf("pullDone", i) : trace[k].result # "nil"].result
  ELSE IF \E k \in EvOf("write", i) : trace[k].result # "ok" THEN "write"
  ELSE IF \E k \in EvOf("pushDone", i) : trace[k].result # "ok" THEN "exit status"
  ELSE IF \E k \in EvOf("remove", i) : trace[k].result # "ok" THEN "remove"
  ELSE "nil"

\* C13: nothing is retried: for every position of the list the fetch, the
\* write, the push and the removal are each made at most once and the
\* transfer returns at most once, also after a step or an earlier chart
\* failed; once the summary is printed every position was fetched exactly
\* once; and what a transfer returns is success or the first error of its
\* steps.
C13_NoRetry ==
  /\ \A i \in 1..Len(helmChartsToMigrate), op \in StepOps :
       Cardinality(EvOf(op, i)) <= 1
  /\ Lines("summary") # {} =>
       \A i \in 1..Len(helmChartsToMigrate) : Cardinality(EvOf("pull", i)) = 1
  /\ \A k \in Ev("return") : trace[k].result = FirstError(trace[k].i)
  /\ \A k \in DOMAIN trace :
       trace[k].i >= 1 => trace[k].i <= Len(helmChartsToMigrate)

C13_Witness ==
  /\ Lines("summary") # {}
  /\ \E k \in EvOf("return", 1) : trace[k].result = "exit status"
  /\ \E k \in EvOf("return", 2) : trace[k].result = "received status"

\* Number of charts processed so far: the transfers that have returned.
Processed == Cardinality(Ev("return"))

\* C14: in every step the failure count and the number of processed charts
\* do not decrease, the failure count grows by at most 1 and only when a
\* transfer returns, and it never exceeds the number of processed charts;
\* the summary is printed at most once, only when every chart of the list
\* has been processed, and after it no count, log line or call changes.
C14_CountsMonotonic ==
  [][ /\ errorCount' >= errorCount
      /\ errorCount' <= errorCount + 1
      /\ Processed' >= Processed
      /\ Processed' <= Processed + 1
      /\ errorCount' # errorCount => Processed' = Processed + 1
      /\ errorCount' <= Processed'
      /\ idx' >= idx
      /\ Cardinality(Lines("summary"))' <= 1
      /\ Lines("summary")' # {} =>
           /\ idx' = Len(helmChartsToMigrate')
           /\ Processed' = Len(helmChartsToMigrate')
           /\ log'[Len(log')].line = "summary"
      /\ Lines("summary") # {} =>
           UNCHANGED <<errorCount, idx, helmChartsToMigrate, log, trace>>
    ]_vars

C14_Witness ==
  /\ Lines("summary") # {}
  /\ Processed = 2
  /\ errorCount = 1

\* The process is inside migrateChartFromSourceToDestination.
InTransfer == pc \in {"pull", "clientDo", "writeFile", "push", "helmPush", "remove"}

\* C15: a step of the transfer of a chart leaves the URLs, the credentials,
\* the destination path, the discovered list, the counters and the log as
\* they are, and changes no file of the working directory other than the
\* one named by the chart's artifact file name.
C15_TransferFrame ==
  [][ InTransfer =>
        /\ UNCHANGED <<config, helmChartsToMigrate, idx, errorCount, log, exitCode>>
        /\ \A f \in FileNames \ {ChartFileName(helmChart)} : files'[f] = files[f]
    ]_vars

C15_Witness ==
  /\ pc = "migrateReturn"
  /\ EvOf("remove", idx) # {}
  /\ \E f \in FileNames \ {ChartFileName(helmChart)} : files[f].present

BlockingCalls == {"helmLoginSource", "helmLoginDestination", "clientDo", "helmPush"}

\* C16: every blocking call (the two logins, every fetch, every push)
\* eventually returns, and every run eventually ends, with the summary or
\* with a fatal error.
C16_EveryCallReturns ==
  /\ \A p \in BlockingCalls : (pc = p) ~> (pc # p)
  /\ <>(pc = "exited")

\* "<name>-<version>.tgz"
NameVersionTgz(hc) == hc.Name \o "-" \o hc.Version \o ".tgz"

\* C17: the artifact file name is "<name>-<version>.tgz" whatever the
\* project is, and in every transfer the file requested from the source,
\* the file written, the file handed to helm push and the file removed all
\* carry that name of the chart of the transfer.
C17_FileNameOfNameAndVersion ==
  /\ \A a \in HelmCharts, b \in HelmCharts :
       (a.Name = b.Name /\ a.Version = b.Version) =>
         ChartFileName(a) = ChartFileName(b)
  /\ \A k \in DOMAIN trace :
       trace[k].op \in StepOps =>
         trace[k].file = NameVersionTgz(helmChartsToMigrate[trace[k].i])
  /\ \A f \in FileNames : files[f].present => f = NameVersionTgz(files[f].of)

C17_Witness ==
  \E i \in 1..Len(helmChartsToMigrate) :
    /\ i > 1
    /\ helmChartsToMigrate[i].Project # helmChartsToMigrate[1].Project
    /\ \A op \in {"pull", "write", "push", "remove"} : EvOf(op, i) # {}

\* C18: every helm push uploads a file that holds all the bytes fetched
\* for the chart of that transfer, and the file stays so while the push is
\* in flight; also when an earlier chart of another project has the same
\* file name and its transfer left the file behind.
C18_PushUploadsOwnBytes ==
  /\ \A k \in Ev("push") :
       trace[k].content = StagedFile(helmChartsToMigrate[trace[k].i], TRUE)
  /\ pc = "helmPush" =>
       files[ChartFileName(helmChart)] = StagedFile(helmChart, TRUE)

C18_Witness ==
  /\ EvOf("push", 2) # {}
  /\ helmChartsToMigrate[1] # helmChartsToMigrate[2]
  /\ ChartFileName(helmChartsToMigrate[1]) = ChartFileName(helmChartsToMigrate[2])
  /\ \E k \in EvOf("pushDone", 1) : trace[k].result # "ok"
====
